---------------------------- MODULE Spec2Model ----------------------------
(***************************************************************************)
(* go-growatt: the poll loop of inverter.Inverter.Read, the consumer loop  *)
(* of main, the clock reconciliation of Inverter.CheckSetTime, and the     *)
(* decoding of the input registers by Inverter.getStats.                   *)
(*                                                                         *)
(* Two goroutines: main (the consumer, which also owns startup and the     *)
(* deferred shutdown) and Read (the poll task).  They share the unbuffered *)
(* channel dataChan, the context ctx and the modbus client i.client.       *)
(* Every blocking call (a register read, a write pass, Close, Open, Sleep, *)
(* the channel send) is a position of the goroutine that makes it, so that *)
(* what the other goroutine does meanwhile is visible.                     *)
(*                                                                         *)
(* Time is kept in whole seconds.  The device clock holds valid calendar   *)
(* values, for which time.Date (GetTime) is the identity on the fields.    *)
(***************************************************************************)
EXTENDS Integers, Sequences, FiniteSets

(***************************************************************************)
(* Program constants.                                                      *)
(***************************************************************************)
\* part_001:135  if timeoutCnt > 10
TimeoutThreshold == 10
\* part_001:209  if diffSecs > 30
TimeThresholdSecs == 30

(***************************************************************************)
(* Bounds of the model.                                                    *)
(***************************************************************************)
\* raw state codes 0..MaxStateCode are read from input register 0
MaxStateCode == 3
\* timeoutCnt (a Go int) is counted up to this value and stays there
MaxTimeoutCnt == 12
\* CheckSetTime is called directly at most this many times in ClockSpec
MaxCalls == 2

\* part_001:13-17: a lookup miss in a Go map yields the zero value ""
InverterStateCodes(code) ==
  CASE code = 0 -> "waiting"
    [] code = 1 -> "normal"
    [] code = 3 -> "fault"
    [] OTHER    -> ""

StateCodes == 0..MaxStateCode

\* the errors of a modbus call: nil, modbus.ErrRequestTimedOut, anything else
ErrNil == "nil"
ErrTimeout == "request timed out"
ErrOther == "other error"

(***************************************************************************)
(* The clock: six holding registers 45..50 and the host's local time.      *)
(***************************************************************************)
ClockFields == {"year", "month", "day", "hour", "minute", "second"}

\* setTime tests and writes the fields in this order (part_001:226-309)
FieldOrder == <<"second", "minute", "hour", "day", "month", "year">>

\* variant: the addresses of the minute and the hour exchanged
RegOfSwapped(f) ==
  CASE f = "second" -> 50
    [] f = "minute" -> 48
    [] f = "hour"   -> 49
    [] f = "day"    -> 47
    [] f = "month"  -> 46
    [] f = "year"   -> 45

\* the register setTime writes for a field (part_001:234,247,260,273,286,299)
RegOf(f) ==
  CASE f = "second" -> 50
    [] f = "minute" -> 49
    [] f = "hour"   -> 48
    [] f = "day"    -> 47
    [] f = "month"  -> 46
    [] f = "year"   -> 45

\* GetTime: ReadRegisters(45, 6) then time.Date(data[0], ..., data[5])
GetTime(regs) ==
  [year   |-> regs[45], month  |-> regs[46], day    |-> regs[47],
   hour   |-> regs[48], minute |-> regs[49], second |-> regs[50]]

\* the registers of a device whose clock shows t
RegsOf(t) ==
  [r \in 45..50 |->
     CASE r = 45 -> t.year  [] r = 46 -> t.month  [] r = 47 -> t.day
       [] r = 48 -> t.hour  [] r = 49 -> t.minute [] r = 50 -> t.second]

IsLeap(y) == (y % 4 = 0 /\ y % 100 /= 0) \/ y % 400 = 0

DaysIn(y, m) ==
  CASE m \in {4, 6, 9, 11} -> 30
    [] m = 2 -> (IF IsLeap(y) THEN 29 ELSE 28)
    [] OTHER -> 31

RECURSIVE DaysBeforeMonth(_, _)
DaysBeforeMonth(y, m) ==
  IF m <= 1 THEN 0 ELSE DaysBeforeMonth(y, m - 1) + DaysIn(y, m - 1)

\* days from 1 January of year 1 to 1 January of year y
DaysBeforeYear(y) ==
  365 * (y - 1) + ((y - 1) \div 4) - ((y - 1) \div 100) + ((y - 1) \div 400)

\* the instant of a time.Time, both times being in time.Local, in seconds
\* since 1 January 1970 (TLC's integers are 32 bits wide)
ToSecs(t) ==
  ((DaysBeforeYear(t.year) - DaysBeforeYear(1970)
      + DaysBeforeMonth(t.year, t.month) + (t.day - 1)) * 24
     + t.hour) * 3600 + t.minute * 60 + t.second

\* math.Abs(now.Sub(inverterTime).Seconds())
DiffSecs(now, inverterTime) ==
  LET d == ToSecs(now) - ToSecs(inverterTime) IN IF d < 0 THEN -d ELSE d

\* variant: a difference of exactly the threshold counts too
ExceedsTimeThresholdInclusive(diffSecs) == diffSecs >= TimeThresholdSecs

\* part_001:209
ExceedsTimeThreshold(diffSecs) == diffSecs > TimeThresholdSecs

(***************************************************************************)
(* setTime(inverterTime, newTime) on a device that rejects the writes of   *)
(* the fields in rejected.  The result is the register file after the     *)
(* pass, the write attempts in the order they were made, and the error.   *)
(***************************************************************************)
\* variant: a rejected year write aborts the pass like any other
WriteFailureFatalAlways(f) == TRUE

\* part_001:235,248,261,274,287 return the error; part_001:300-308 logs it
WriteFailureFatal(f) == f /= "year"

RECURSIVE setTimeFrom(_, _, _, _, _)
setTimeFrom(k, inverterTime, newTime, rejected, acc) ==
  IF k > Len(FieldOrder) THEN acc
  ELSE
    LET f == FieldOrder[k] IN
    IF inverterTime[f] = newTime[f]
    THEN setTimeFrom(k + 1, inverterTime, newTime, rejected, acc)
    ELSE
      LET tried == [acc EXCEPT !.log = Append(@, <<RegOf(f), newTime[f]>>)] IN
      IF f \in rejected
      THEN IF WriteFailureFatal(f)
           THEN [tried EXCEPT !.err = ErrOther]
           ELSE setTimeFrom(k + 1, inverterTime, newTime, rejected, tried)
      ELSE setTimeFrom(k + 1, inverterTime, newTime, rejected,
                       [tried EXCEPT !.regs[RegOf(f)] = newTime[f]])

\* variant: the two times passed in the wrong order
setTimeArgsSwapped(regs, inverterTime, newTime, rejected) ==
  setTimeFrom(1, newTime, inverterTime, rejected,
              [regs |-> regs, log |-> <<>>, err |-> ErrNil])

\* part_001:225-312
setTime(regs, inverterTime, newTime, rejected) ==
  setTimeFrom(1, inverterTime, newTime, rejected,
              [regs |-> regs, log |-> <<>>, err |-> ErrNil])

\* CheckSetTime with the host clock at now; readErr is GetTime's error
CheckSetTime(regs, now, readErr, rejected) ==
  IF readErr /= ErrNil
  THEN [regs |-> regs, log |-> <<>>, err |-> readErr]
  ELSE
    LET inverterTime == GetTime(regs) IN
    IF ExceedsTimeThreshold(DiffSecs(now, inverterTime))
    THEN setTime(regs, inverterTime, now, rejected)
    ELSE [regs |-> regs, log |-> <<>>, err |-> ErrNil]

(***************************************************************************)
(* Inputs of the clock: the host times and the device clock readings.      *)
(***************************************************************************)
HostTime0 ==
  [year |-> 2024, month |-> 1, day |-> 1, hour |-> 0, minute |-> 0, second |-> 10]

HostTimes == {HostTime0, [HostTime0 EXCEPT !.second = 41]}

\* device clocks that differ from the host's in one field, in none, and in
\* all six (the turn of the year), at seconds around the 30 s threshold
DeviceBases ==
  {HostTime0,
   [HostTime0 EXCEPT !.minute = 59],
   [HostTime0 EXCEPT !.hour = 23],
   [HostTime0 EXCEPT !.day = 31],
   [HostTime0 EXCEPT !.month = 12],
   [HostTime0 EXCEPT !.year = 2023],
   [year |-> 2023, month |-> 12, day |-> 31, hour |-> 23, minute |-> 59,
    second |-> 10]}

DeviceTimes ==
  {[b EXCEPT !.second = s] : b \in DeviceBases, s \in {9, 10, 11, 39, 40, 41}}

\* the device clocks the poll loop is started with: in step, and 40 s ahead
PollDeviceTimes == {HostTime0, [HostTime0 EXCEPT !.second = 50]}

\* what the device does with the writes of one pass: setTime stops at the
\* first rejected field other than the year, so one such field is enough
RejectSets ==
  {{}} \cup {{f} : f \in ClockFields} \cup {{f, "year"} : f \in ClockFields}

(***************************************************************************)
(* getStats: the decoding of the 41 input registers (part_001:162-197).    *)
(* A uint16 is an integer in 0..65535.  A uint32 is kept as its two 16-bit *)
(* halves [hi, lo], its value being hi * 2^16 + lo, so that no intermediate*)
(* value of the arithmetic below exceeds 31 bits.                          *)
(***************************************************************************)
TwoTo16 == 65536

\* uint32(hi)<<16 | uint32(lo)
U32(hi, lo) == [hi |-> hi, lo |-> lo]

\* x / d in uint32, for a divisor d of at most 100
U32Div(x, d) ==
  [hi |-> x.hi \div d, lo |-> ((x.hi % d) * TwoTo16 + x.lo) \div d]

\* the product x * m as an integer of three 16-bit parts, low part first
MulParts(x, m) ==
  LET t0 == x.lo * m
      t1 == x.hi * m + (t0 \div TwoTo16)
  IN <<t0 % TwoTo16, t1 % TwoTo16, t1 \div TwoTo16>>

\* x * m in uint32: the low 32 bits of the product
U32Mul(x, m) == [hi |-> MulParts(x, m)[2], lo |-> MulParts(x, m)[1]]

\* part_001:168-194 (Timestamp, the host's time.Now(), is left out)
getStats(d) ==
  [State             |-> InverterStateCodes(d[0]),
   PVInputPower      |-> U32Div(U32(d[1], d[2]), 10),
   PV1InputVolt      |-> d[3] \div 10,
   PV1InputCurrent   |-> d[4] \div 10,
   PV1InputWatt      |-> U32Div(U32(d[5], d[5]), 10),
   PV2InputVolt      |-> d[7] \div 10,
   PV2InputCurrent   |-> d[8] \div 10,
   PV2InputWatt      |-> U32Div(U32(d[9], d[10]), 10),
   ACWatt            |-> U32Div(U32(d[11], d[12]), 10),
   ACFrequency       |-> d[13] \div 100,
   AC1Volt           |-> d[14] \div 10,
   AC1Current        |-> d[15] \div 10,
   AC1Watt           |-> U32Div(U32(d[16], d[17]), 10),
   AC2Volt           |-> d[18] \div 10,
   AC2Current        |-> d[19] \div 10,
   AC2Watt           |-> U32Div(U32(d[20], d[21]), 10),
   AC3Volt           |-> d[22] \div 10,
   AC3Current        |-> d[23] \div 10,
   AC3Watt           |-> U32Div(U32(d[24], d[25]), 10),
   TotalTodayWatt    |-> U32Mul(U32(d[26], d[27]), 100),
   TotalAllTimeWatt  |-> U32Mul(U32(d[28], d[29]), 100),
   TotalWorkTimeSecs |-> U32Div(U32(d[30], d[31]), 2),
   Temperature       |-> d[32] \div 10,
   FaultCode         |-> d[40]]

\* the register block ReadRegisters(0, 41, INPUT_REGISTER) returns
BlockLen == 41

\* the words the blocks of the model are made of
WordValues == {0, 1, 9, 10, 655, 656, 1500, 65535}

\* a block of zeros
ZeroBlock == [r \in 0..(BlockLen - 1) |-> 0]

\* the blocks of the model: zeros but for the words at i and i + 1
Blocks ==
  {[ZeroBlock EXCEPT ![i] = hi, ![i + 1] = lo] :
     i \in 0..(BlockLen - 2), hi \in WordValues, lo \in WordValues}

(***************************************************************************)
(* State.                                                                  *)
(***************************************************************************)
VARIABLES
  pc,                  \* Read: where the poll goroutine is
  lastInverterState,   \* Read: part_001:98
  timeoutCnt,          \* Read: part_001:101
  stats,               \* Read: the record getStats returned (part_001:113)
  err,                 \* Read: the error getStats returned (part_001:113)
  mpc,                 \* main: where the main goroutine is
  mainLastInverterState, \* main: lastInverterState of main.go:89
  msg,                 \* main: the record received from dataChan (main.go:92)
  ctxDone,             \* ctx has been cancelled
  client,              \* i.client: "open" or "closed"
  regs,                \* the device's holding registers 45..50
  now,                 \* the host's local time
  streak,              \* history: consecutive timeouts, in a state other than
                       \* waiting, since timeoutCnt was 0
  decodedCur,          \* history: label of the last successfully decoded record
  notice,              \* history: the state change main is publishing, or "none"
  calls,               \* history: one record per direct CheckSetTime call
  checkErr,            \* Read: the error of the CheckSetTime that has just
                       \* returned (part_001:149), nil once the select is left
  data,                \* the input registers 0..40 of the device
  decoded              \* history: the records getStats made of data

vars ==
  <<pc, lastInverterState, timeoutCnt, stats, err, mpc, mainLastInverterState,
    msg, ctxDone, client, regs, now, streak, decodedCur, notice, calls,
    checkErr, data, decoded>>

readVars == <<pc, lastInverterState, timeoutCnt, stats, err>>
mainVars == <<mpc, mainLastInverterState, msg>>
clockVars == <<regs, now, calls>>
decodeVars == <<data, decoded>>

\* the zero value of Stats; prev is history: the label decoded before this one
NoStats == [State |-> "", prev |-> ""]

\* the state at main.go:78: config read, MQTT and the inverter connected
InitProgram ==
  /\ pc = "notStarted"
  /\ lastInverterState = InverterStateCodes(0)
  /\ timeoutCnt = 0
  /\ stats = NoStats
  /\ err = ErrNil
  /\ mpc = "checkSetTime"
  /\ mainLastInverterState = InverterStateCodes(0)
  /\ msg = NoStats
  /\ ctxDone = FALSE
  /\ client = "open"
  /\ streak = 0
  /\ decodedCur = InverterStateCodes(0)
  /\ notice = "none"
  /\ calls = <<>>
  /\ checkErr = ErrNil
  /\ decoded = <<>>

Init ==
  /\ InitProgram
  /\ data = ZeroBlock
  /\ now = HostTime0
  /\ regs \in {RegsOf(t) : t \in PollDeviceTimes}

(***************************************************************************)
(* The modbus client as the program sees it.                               *)
(***************************************************************************)
\* the errors a register read can return: a closed client reads nothing
ReadErrs ==
  IF client = "closed" THEN {ErrTimeout, ErrOther}
  ELSE {ErrNil, ErrTimeout, ErrOther}

(***************************************************************************)
(* Read: the decisions of the error branch (part_001:114-142).             *)
(***************************************************************************)
\* variant: every error counts as a timeout
IsTimeoutErrorAny(e) == e /= ErrNil

\* part_001:115  err.Error() == "request timed out"
IsTimeoutError(e) == e = ErrTimeout

\* variant: the state code of normal instead of waiting
ExpectedTimeoutInNormal(last, isTimeout) ==
  last = InverterStateCodes(1) /\ isTimeout

\* variant: no timeout is taken as expected
ExpectedTimeoutNever(last, isTimeout) == FALSE

\* part_001:121  lastInverterState == InverterStateCodes[0] && IsTimeoutError
ExpectedTimeout(last, isTimeout) == last = InverterStateCodes(0) /\ isTimeout

\* part_001:133  timeoutCnt += 1 (the count stays at MaxTimeoutCnt once there:
\* the program only tests it against TimeoutThreshold)
IncTimeoutCnt(cnt) == IF cnt < MaxTimeoutCnt THEN cnt + 1 ELSE cnt

\* variant: reconnect on reaching the threshold
ReconnectDueAtThreshold(cnt) == cnt >= TimeoutThreshold

\* variant: reconnect only on first passing the threshold
ReconnectDueOnce(cnt) == cnt = TimeoutThreshold + 1

\* part_001:135  timeoutCnt > 10
ReconnectDue(cnt) == cnt > TimeoutThreshold

\* the goroutine runs as long as the process does: main's return ends both
Running == mpc /= "exited"

\* history: the length of the run of consecutive timeouts that began with
\* timeoutCnt at 0 and the last observed state other than waiting, after a
\* poll that ended with error e
StreakAfter(e, last, cnt, run) ==
  IF e = ErrTimeout /\ last /= "waiting"
  THEN IF run = 0
       THEN (IF cnt = 0 THEN 1 ELSE 0)
       ELSE (IF run < MaxTimeoutCnt THEN run + 1 ELSE run)
  ELSE 0

(***************************************************************************)
(* Read: the poll goroutine (part_001:93-160).                             *)
(***************************************************************************)
\* select takes case <-statsTicker.C and calls getStats (part_001:112-113)
ReadStatsTick ==
  /\ Running /\ pc = "select"
  /\ pc' = "getStats"
  /\ checkErr' = ErrNil
  /\ UNCHANGED <<decodeVars, lastInverterState, timeoutCnt, stats, err,
                 mainVars, ctxDone, client, clockVars, streak, decodedCur,
                 notice>>

\* getStats returns (part_001:162-197): a record with the label of word 0,
\* or an error
ReadGetStatsReturn ==
  /\ Running /\ pc = "getStats"
  /\ \E e \in ReadErrs :
       /\ err' = e
       /\ IF e = ErrNil
          THEN /\ \E code \in StateCodes :
                    /\ stats' = [State |-> InverterStateCodes(code),
                                 prev |-> decodedCur]
                    /\ decodedCur' = InverterStateCodes(code)
               /\ pc' = "send"
               /\ streak' = 0
          ELSE /\ pc' = "gotErr"
               /\ UNCHANGED <<stats, decodedCur, streak>>
  /\ UNCHANGED <<decodeVars, checkErr, lastInverterState, timeoutCnt,
                 mainVars, ctxDone, client, clockVars, notice>>

\* the error branch, part_001:114-142, up to its Sleep, Disconnect or continue
ReadHandleErr ==
  /\ Running /\ pc = "gotErr"
  /\ IF ExpectedTimeout(lastInverterState, IsTimeoutError(err))
     THEN /\ pc' = "backoff"
          /\ timeoutCnt' = timeoutCnt
     ELSE IF IsTimeoutError(err)
     THEN /\ timeoutCnt' = IncTimeoutCnt(timeoutCnt)
          /\ pc' = IF ReconnectDue(timeoutCnt') THEN "disconnect" ELSE "select"
     ELSE /\ pc' = "select"
          /\ timeoutCnt' = timeoutCnt
  /\ err' = ErrNil
  /\ streak' = StreakAfter(err, lastInverterState, timeoutCnt, streak)
  /\ UNCHANGED <<decodeVars, checkErr, lastInverterState, stats, mainVars,
                 ctxDone, client, clockVars, decodedCur, notice>>

\* time.Sleep(1 * time.Minute) returns (part_001:129), then continue
ReadBackoffEnd ==
  /\ Running /\ pc = "backoff"
  /\ pc' = "select"
  /\ UNCHANGED <<decodeVars, checkErr, lastInverterState, timeoutCnt, stats,
                 err, mainVars, ctxDone, client, clockVars, streak,
                 decodedCur, notice>>

\* i.Disconnect() returns (part_001:137); its error is dropped
ReadDisconnectReturn ==
  /\ Running /\ pc = "disconnect"
  /\ client' = "closed"
  /\ pc' = "connect"
  /\ UNCHANGED <<decodeVars, checkErr, lastInverterState, timeoutCnt, stats,
                 err, mainVars, ctxDone, clockVars, streak, decodedCur, notice>>

\* i.Connect() returns (part_001:138): i.client is replaced only on success
ReadConnectReturn ==
  /\ Running /\ pc = "connect"
  /\ \E opened \in BOOLEAN : client' = IF opened THEN "open" ELSE client
  /\ pc' = "select"
  /\ UNCHANGED <<decodeVars, checkErr, lastInverterState, timeoutCnt, stats,
                 err, mainVars, ctxDone, clockVars, streak, decodedCur, notice>>

\* select takes case <-checkTimeTicker.C and calls CheckSetTime (part_001:148)
ReadClockTick ==
  /\ Running /\ pc = "select"
  /\ pc' = "checkSetTime"
  /\ checkErr' = ErrNil
  /\ UNCHANGED <<decodeVars, lastInverterState, timeoutCnt, stats, err,
                 mainVars, ctxDone, client, clockVars, streak, decodedCur,
                 notice>>

\* variant: an error of CheckSetTime is returned from Read
ReadCheckSetTimeReturnStops ==
  /\ Running /\ pc = "checkSetTime"
  /\ \E readErr \in ReadErrs, rejected \in RejectSets :
       /\ regs' = CheckSetTime(regs, now, readErr, rejected).regs
       /\ checkErr' = CheckSetTime(regs, now, readErr, rejected).err
  /\ pc' = IF checkErr' = ErrNil THEN "select" ELSE "stopped"
  /\ UNCHANGED <<decodeVars, lastInverterState, timeoutCnt, stats, err,
                 mainVars, ctxDone, client, now, calls, streak, decodedCur,
                 notice>>

\* CheckSetTime returns (part_001:149-152): an error is logged, then continue
ReadCheckSetTimeReturn ==
  /\ Running /\ pc = "checkSetTime"
  /\ \E readErr \in ReadErrs, rejected \in RejectSets :
       /\ regs' = CheckSetTime(regs, now, readErr, rejected).regs
       /\ checkErr' = CheckSetTime(regs, now, readErr, rejected).err
  /\ pc' = "select"
  /\ UNCHANGED <<decodeVars, lastInverterState, timeoutCnt, stats, err,
                 mainVars, ctxDone, client, now, calls, streak, decodedCur,
                 notice>>

\* select takes case <-ctx.Done() and calls i.Disconnect() (part_001:154-156)
ReadCtxDone ==
  /\ Running /\ pc = "select"
  /\ ctxDone
  /\ pc' = "ctxDisconnect"
  /\ checkErr' = ErrNil
  /\ UNCHANGED <<decodeVars, lastInverterState, timeoutCnt, stats, err,
                 mainVars, ctxDone, client, clockVars, streak, decodedCur,
                 notice>>

\* i.Disconnect() returns and Read returns ctx.Err() (part_001:156-157)
ReadCtxDisconnectReturn ==
  /\ Running /\ pc = "ctxDisconnect"
  /\ client' = "closed"
  /\ pc' = "stopped"
  /\ UNCHANGED <<decodeVars, checkErr, lastInverterState, timeoutCnt, stats,
                 err, mainVars, ctxDone, clockVars, streak, decodedCur, notice>>

(***************************************************************************)
(* main: startup, the consumer loop and the deferred shutdown              *)
(* (main.go:78-145).                                                       *)
(***************************************************************************)
\* variant: compared with the initial label, not the stored one
StateChangedFromWaiting(last, state) == InverterStateCodes(0) /= state

\* variant: every record counts as a change of state
StateChangedAlways(last, state) == TRUE

\* variant: the label of an unknown state code is not taken over
StateChangedToKnown(last, state) == last /= state /\ state /= ""

\* main.go:94
StateChanged(last, state) == last /= state

\* main.go:78-89: CheckSetTime upon start (its error is logged), then
\* go inv.Read(ctx, dataChan), which runs up to its select
MainCheckSetTime ==
  /\ mpc = "checkSetTime"
  /\ \E readErr \in ReadErrs, rejected \in RejectSets :
       regs' = CheckSetTime(regs, now, readErr, rejected).regs
  /\ mpc' = "loop"
  /\ pc' = "select"
  /\ UNCHANGED <<decodeVars, checkErr, lastInverterState, timeoutCnt, stats,
                 err, mainLastInverterState, msg, ctxDone, client, now, calls,
                 streak, decodedCur, notice>>

\* variant: main receives a copy of the record and Read keeps offering it
MainRecvDuplicating ==
  /\ mpc = "loop" /\ pc = "send"
  /\ msg' = stats
  /\ mpc' = "handle"
  /\ UNCHANGED <<decodeVars, checkErr, readVars, mainLastInverterState,
                 ctxDone, client, clockVars, streak, decodedCur, notice>>

\* the rendezvous on dataChan: main.go:92 receives what part_001:144 sends,
\* and Read goes on with part_001:145-146
MainRecv ==
  /\ mpc = "loop" /\ pc = "send"
  /\ msg' = stats
  /\ mpc' = "handle"
  /\ lastInverterState' = stats.State
  /\ timeoutCnt' = 0
  /\ stats' = NoStats
  /\ pc' = "select"
  /\ UNCHANGED <<decodeVars, checkErr, err, mainLastInverterState, ctxDone,
                 client, clockVars, streak, decodedCur, notice>>

\* main.go:93-123: publish the state change, if there is one
MainHandle ==
  /\ mpc = "handle"
  /\ IF StateChanged(mainLastInverterState, msg.State)
     THEN /\ notice' = msg.State
          /\ mainLastInverterState' = msg.State
     ELSE /\ notice' = "none"
          /\ mainLastInverterState' = mainLastInverterState
  /\ mpc' = "publish"
  /\ UNCHANGED <<decodeVars, checkErr, readVars, msg, ctxDone, client,
                 clockVars, streak, decodedCur>>

\* main.go:125-139: publish the record, back to the select
MainPublish ==
  /\ mpc = "publish"
  /\ msg' = NoStats
  /\ notice' = "none"
  /\ mpc' = "loop"
  /\ UNCHANGED <<decodeVars, checkErr, readVars, mainLastInverterState,
                 ctxDone, client, clockVars, streak, decodedCur>>

\* main.go:141-143: a signal is received, main returns; the deferred cancel()
\* runs and the deferred inv.Disconnect() is called
MainSignal ==
  /\ mpc = "loop"
  /\ ctxDone' = TRUE
  /\ mpc' = "disconnect"
  /\ UNCHANGED <<decodeVars, checkErr, readVars, mainLastInverterState, msg,
                 client, clockVars, streak, decodedCur, notice>>

\* the deferred inv.Disconnect() returns (main.go:75)
MainDisconnectReturn ==
  /\ mpc = "disconnect"
  /\ client' = "closed"
  /\ mpc' = "mqttDisconnect"
  /\ UNCHANGED <<decodeVars, checkErr, readVars, mainLastInverterState, msg,
                 ctxDone, clockVars, streak, decodedCur, notice>>

\* the deferred mqttClient.Disconnect() returns (main.go:65) and main ends:
\* the process exits without waiting for Read
MainExit ==
  /\ mpc = "mqttDisconnect"
  /\ mpc' = "exited"
  /\ UNCHANGED <<decodeVars, checkErr, readVars, mainLastInverterState, msg,
                 ctxDone, client, clockVars, streak, decodedCur, notice>>

ReadNext ==
  \/ ReadStatsTick \/ ReadGetStatsReturn \/ ReadHandleErr \/ ReadBackoffEnd
  \/ ReadDisconnectReturn \/ ReadConnectReturn
  \/ ReadClockTick \/ ReadCheckSetTimeReturn
  \/ ReadCtxDone \/ ReadCtxDisconnectReturn

MainNext ==
  \/ MainCheckSetTime \/ MainRecv \/ MainHandle \/ MainPublish
  \/ MainSignal \/ MainDisconnectReturn \/ MainExit

Next == ReadNext \/ MainNext

Spec == Init /\ [][Next]_vars

(***************************************************************************)
(* Scheduling.  A goroutine that can run does run, and a call in flight    *)
(* returns (weak fairness).  Go's select picks at random among the ready   *)
(* cases, so a case that is ready again and again is taken (strong         *)
(* fairness of the stats tick and of ctx.Done).  Nothing makes a signal    *)
(* arrive, a clock tick fire, or a poll succeed.                           *)
(***************************************************************************)
Fairness ==
  /\ WF_vars(MainCheckSetTime) /\ WF_vars(MainRecv) /\ WF_vars(MainHandle)
  /\ WF_vars(MainPublish) /\ WF_vars(MainDisconnectReturn) /\ WF_vars(MainExit)
  /\ WF_vars(ReadGetStatsReturn) /\ WF_vars(ReadHandleErr)
  /\ WF_vars(ReadBackoffEnd) /\ WF_vars(ReadDisconnectReturn)
  /\ WF_vars(ReadConnectReturn) /\ WF_vars(ReadCheckSetTimeReturn)
  /\ WF_vars(ReadCtxDisconnectReturn)
  /\ SF_vars(ReadStatsTick) /\ SF_vars(ReadCtxDone)

FairSpec == Init /\ [][Next]_vars /\ Fairness

(***************************************************************************)
(* The clock alone: CheckSetTime called on a device clock and a host time  *)
(* drawn from DeviceTimes and HostTimes, one record of history per call.   *)
(***************************************************************************)
ClockInit ==
  /\ InitProgram
  /\ data = ZeroBlock
  /\ now \in HostTimes
  /\ regs \in {RegsOf(t) : t \in DeviceTimes}

\* one call of Inverter.CheckSetTime (part_001:199-223), entry to return
CheckSetTimeCall ==
  /\ Len(calls) < MaxCalls
  /\ \E readErr \in ReadErrs, rejected \in RejectSets :
       LET r == CheckSetTime(regs, now, readErr, rejected) IN
       /\ regs' = r.regs
       /\ calls' = Append(calls, [regs |-> regs, now |-> now, readErr |-> readErr,
                                  post |-> r.regs, log |-> r.log, err |-> r.err])
  /\ UNCHANGED <<decodeVars, checkErr, readVars, mainVars, ctxDone, client,
                 now, streak, decodedCur, notice>>

\* the host clock moves on between two calls
HostAdvance ==
  /\ \E t \in HostTimes : ToSecs(t) > ToSecs(now) /\ now' = t
  /\ UNCHANGED <<decodeVars, checkErr, readVars, mainVars, ctxDone, client,
                 regs, calls, streak, decodedCur, notice>>

ClockNext == CheckSetTimeCall \/ HostAdvance

ClockSpec == ClockInit /\ [][ClockNext]_vars

(***************************************************************************)
(* The decoder alone: getStats applied to a block drawn from Blocks.       *)
(***************************************************************************)
DecodeInit ==
  /\ InitProgram
  /\ now = HostTime0
  /\ regs = RegsOf(HostTime0)
  /\ data \in Blocks

\* one call of Inverter.getStats whose ReadRegisters returned data
GetStatsCall ==
  /\ decoded = <<>>
  /\ decoded' = <<getStats(data)>>
  /\ UNCHANGED <<readVars, mainVars, ctxDone, client, clockVars, streak,
                 decodedCur, notice, checkErr, data>>

DecodeNext == GetStatsCall

DecodeSpec == DecodeInit /\ [][DecodeNext]_vars

(***************************************************************************)
(* Which positions are inside a call on i.client.                          *)
(***************************************************************************)
\* Read: ReadRegisters (part_001:163), the calls of CheckSetTime
\* (part_001:149), Close (part_001:137,156) and Connect (part_001:138)
ReadUsesClient ==
  pc \in {"getStats", "checkSetTime", "disconnect", "connect", "ctxDisconnect"}

\* main: CheckSetTime upon start (main.go:78), the deferred Close (main.go:75)
MainUsesClient == mpc \in {"checkSetTime", "disconnect"}

(***************************************************************************)
(* The poll loop: claims.                                                  *)
(***************************************************************************)
\* C1: from a counter of 0 and a last observed state other than waiting, the
\* k-th consecutive timeout (k <= 11) sends Read to its reconnect exactly when
\* k = 11, so over 11 timeouts there is one reconnect, at the 11th; and the
\* reconnect is Disconnect followed by Connect.
C1_ReconnectAtEleventhTimeout ==
  [][/\ (pc = "gotErr" /\ pc' /= "gotErr" /\ streak' >= 1 /\ streak' <= 11)
        => ((pc' = "disconnect") <=> (streak' = 11))
     /\ (pc = "disconnect" /\ pc' /= "disconnect") => pc' = "connect"]_vars

C1_Witness == pc = "disconnect" /\ streak = 11 /\ lastInverterState = "normal"

\* C2: the step that ends a reconnect (Connect returns, opened or not) leaves
\* the consecutive-timeout counter at 0.
C2_CounterZeroAfterReconnect ==
  [][(pc = "connect" /\ pc' = "select") => timeoutCnt' = 0]_vars

\* C3: a timeout while the last observed state is waiting starts the backoff,
\* with the counter and the client as they were; the backoff ends only by
\* the return of its Sleep, to the select, with no read in between.
C3_TimeoutWhileWaitingBacksOff ==
  [][/\ (pc = "gotErr" /\ err = ErrTimeout /\ lastInverterState = "waiting"
           /\ pc' /= "gotErr")
        => (pc' = "backoff" /\ timeoutCnt' = timeoutCnt /\ client' = client)
     /\ (pc = "backoff" /\ pc' /= "backoff")
        => (pc' = "select" /\ timeoutCnt' = timeoutCnt /\ client' = client
            /\ lastInverterState' = lastInverterState)]_vars

C3_Witness ==
  pc = "backoff" /\ lastInverterState = "waiting" /\ timeoutCnt = 0

\* C4: while main handles a record, it publishes a state change if and only
\* if the record's label differs from the label decoded just before it (the
\* assumed waiting for the first record), and the change names the record's
\* label; outside the handling of a record nothing is published.
C4_NoticeIffLabelDiffers ==
  /\ mpc = "publish" =>
       /\ (notice /= "none") <=> (msg.State /= msg.prev)
       /\ notice /= "none" => notice = msg.State
  /\ mpc /= "publish" => notice = "none"

C4_Witness ==
  mpc = "publish" /\ notice = "waiting" /\ msg.prev = "normal"

\* C5: once cancellation is signalled while Read is blocked handing a record
\* to the consumer, Read eventually reaches Stopped with the client closed.
C5_CancelledWhileSendingStops ==
  (ctxDone /\ pc = "send") ~> (pc = "stopped" /\ client = "closed")

\* C6: main and Read are never inside a call on i.client at the same time.
C6_ClientHasOneUser == ~(ReadUsesClient /\ MainUsesClient)

\* from some point on no poll returns a record or an error other than a timeout
OnlyTimeouts == pc /= "send" /\ (pc = "gotErr" => err = ErrTimeout)

\* C7 as claimed: if from some point on every poll times out, Read goes to
\* its reconnect again and again (unless it is cancelled).
C7_ReconnectsForeverAnyState ==
  <>[]OnlyTimeouts => ([]<>(pc = "disconnect") \/ <>ctxDone)

\* C7 as amended: if from some point on every poll times out and the last
\* observed state is other than waiting, Read goes to its reconnect again
\* and again (unless it is cancelled).
C7_ReconnectsForeverUnlessWaiting ==
  <>[](OnlyTimeouts /\ lastInverterState /= "waiting")
    => ([]<>(pc = "disconnect") \/ <>ctxDone)

\* a reconnect after the first one of a run of timeouts
C7_Witness ==
  pc = "disconnect" /\ timeoutCnt > 11 /\ lastInverterState /= "waiting"

\* C12: a decoded record is pending only while Read is in its send; Read
\* leaves the send only by main's receive of that record, going back to the
\* select without a read, a clock check or a reconnect in between; and each
\* record main receives is the one decoded next after the record it
\* received before (none skipped, none received twice).
C12_SingleSlotHandoff ==
  [][/\ (pc /= "send" => stats = NoStats)
     /\ (pc' /= "send" => stats' = NoStats)
     /\ (pc = "send" /\ pc' /= "send")
        => (mpc = "loop" /\ mpc' = "handle" /\ pc' = "select" /\ msg' = stats
            /\ client' = client /\ regs' = regs)
     /\ (mpc = "loop" /\ mpc' = "handle")
        => (pc = "send" /\ pc' = "select" /\ msg' = stats
            /\ stats.prev = mainLastInverterState)]_vars

\* a record is pending while main still publishes the one before it
C12_Witness ==
  pc = "send" /\ mpc = "publish" /\ stats.prev = msg.State
    /\ stats.State /= msg.State

\* C14: Read returns only from its ctx.Done case, which it enters only once
\* ctx is cancelled; after an error of a poll, after a Connect (opened or
\* not) and after a CheckSetTime (failed or not) it goes on with the loop;
\* and the return of CheckSetTime leaves the last observed state and the
\* consecutive-timeout counter as they were.
C14_StopsOnlyOnCancellation ==
  [][/\ (pc' = "stopped" /\ pc /= "stopped")
        => (ctxDone /\ pc = "ctxDisconnect")
     /\ (pc' = "ctxDisconnect" /\ pc /= "ctxDisconnect")
        => (ctxDone /\ pc = "select")
     /\ (pc = "gotErr" /\ pc' /= pc)
        => pc' \in {"select", "backoff", "disconnect"}
     /\ (pc \in {"backoff", "connect"} /\ pc' /= pc) => pc' = "select"
     /\ (pc = "checkSetTime" /\ pc' /= pc)
        => (pc' = "select" /\ lastInverterState' = lastInverterState
            /\ timeoutCnt' = timeoutCnt)]_vars

\* Read is back in its select after a failed clock check, not cancelled,
\* with the state and the counter of before
C14_Witness ==
  pc = "select" /\ checkErr /= ErrNil /\ ~ctxDone
    /\ lastInverterState = "normal" /\ timeoutCnt = 3

\* Read is back in its select after a reconnect that failed, not cancelled
C14_WitnessReconnect ==
  pc = "select" /\ client = "closed" /\ ~ctxDone /\ timeoutCnt > TimeoutThreshold

\* C15: once ctx is cancelled, Read's select takes neither the stats tick
\* nor the clock tick, and Read starts no register read or write.
C15_NoTickAfterCancellation ==
  [][ctxDone => ~(pc = "select" /\ pc' \in {"getStats", "checkSetTime"})]_vars

\* C16: Read's last observed state is assigned only by the step that hands
\* a record over, which every time sets it to the record's label and the
\* consecutive-timeout counter to 0; no failed poll, backoff, reconnect or
\* clock check changes it.  main's last observed state is changed only by
\* the handling of a received record, once, to the record's label, and a
\* state change is published exactly when the label differs from the value
\* main's last observed state had before that step.
C16_LastStateSetOncePerPoll ==
  [][/\ (pc = "send" /\ pc' /= "send")
        => (lastInverterState' = stats.State /\ timeoutCnt' = 0)
     /\ (lastInverterState' /= lastInverterState)
        => (pc = "send" /\ pc' = "select")
     /\ (mpc = "handle" /\ mpc' /= "handle")
        => /\ (notice' /= "none") <=> (mainLastInverterState /= msg.State)
           /\ mainLastInverterState' = msg.State
     /\ (mainLastInverterState' /= mainLastInverterState)
        => (mpc = "handle" /\ mpc' = "publish")]_vars

\* main publishes the change to fault that the poll before a timeout brought
C16_Witness ==
  /\ mpc = "publish" /\ notice = "fault" /\ mainLastInverterState = "fault"
  /\ lastInverterState = "fault" /\ timeoutCnt = 1

\* C17: a poll that failed with an error other than a timeout is followed by
\* the select, with the consecutive-timeout counter, the last observed state
\* and the client as they were: no count, no reset, no backoff, no reconnect.
C17_OtherErrorChangesNothing ==
  [][(pc = "gotErr" /\ err = ErrOther /\ pc' /= "gotErr")
       => (pc' = "select" /\ timeoutCnt' = timeoutCnt
           /\ lastInverterState' = lastInverterState /\ client' = client)]_vars

\* such a poll in the middle of a run of timeouts, and while waiting
C17_Witness ==
  pc = "gotErr" /\ err = ErrOther /\ timeoutCnt = 5
    /\ lastInverterState = "normal" /\ client = "open"

C17_WitnessWaiting ==
  pc = "gotErr" /\ err = ErrOther /\ lastInverterState = "waiting"

\* C19: whenever Read's last observed state is waiting its
\* consecutive-timeout counter is 0, and Read is not in its reconnect.
C19_WaitingImpliesCounterZero ==
  lastInverterState = "waiting"
    => (timeoutCnt = 0 /\ pc \notin {"disconnect", "connect"})

\* a timeout while waiting, the waiting having followed normal
C19_Witness ==
  /\ pc = "gotErr" /\ err = ErrTimeout /\ lastInverterState = "waiting"
  /\ mpc = "publish" /\ msg.State = "waiting" /\ msg.prev = "normal"

\* C20: Read's and main's last observed state are both waiting at the start
\* and are equal whenever main is not between the receipt of a record and
\* the end of its state comparison.
C20_LabelsAgree ==
  /\ mpc = "checkSetTime"
       => (lastInverterState = "waiting" /\ mainLastInverterState = "waiting")
  /\ mpc /= "handle" => lastInverterState = mainLastInverterState

\* both at fault after polls that succeeded and polls that failed
C20_Witness ==
  /\ mpc = "loop" /\ pc = "select" /\ timeoutCnt = 2
  /\ lastInverterState = "fault" /\ mainLastInverterState = "fault"

\* both at the label of an unknown state code
C20_WitnessUnknown ==
  mpc = "loop" /\ lastInverterState = "" /\ mainLastInverterState = ""

(***************************************************************************)
(* The clock: claims, on the history of the calls of ClockSpec.  A record  *)
(* holds the registers before the call (regs) and after it (post), the     *)
(* host time (now), the error of the read (readErr), the write attempts    *)
(* in order (log) and the error returned (err).                            *)
(***************************************************************************)
CallIds == 1..Len(calls)

\* every write attempted by call c was accepted by the device
AllWritesAccepted(c) ==
  \A k \in 1..Len(c.log) : c.post[c.log[k][1]] = c.log[k][2]

\* C8: a call that read the device clock attempts register writes if and
\* only if the clock reading and the host time are more than 30 s apart.
C8_WritesIffMoreThan30s ==
  \A i \in CallIds :
    calls[i].readErr = ErrNil =>
      ((Len(calls[i].log) > 0)
         <=> (DiffSecs(calls[i].now, GetTime(calls[i].regs)) > 30))

\* 30 s apart: no write; then the host clock moved on, and the next call wrote
C8_Witness ==
  /\ Len(calls) = 2
  /\ calls[1].readErr = ErrNil /\ calls[2].readErr = ErrNil
  /\ DiffSecs(calls[1].now, GetTime(calls[1].regs)) = 30
  /\ calls[1].log = <<>>
  /\ DiffSecs(calls[2].now, GetTime(calls[2].regs)) > 30
  /\ calls[2].log /= <<>>

\* a call 31 s apart wrote
C8_Witness31 ==
  \E i \in CallIds :
    /\ DiffSecs(calls[i].now, GetTime(calls[i].regs)) = 31
    /\ calls[i].log /= <<>>

\* C9 as claimed: of two calls in succession at the same host time, the
\* first having returned success (all its writes accepted, or only its year
\* write rejected), the second attempts no write.
C9_SecondCallWritesNothing ==
  \A i \in CallIds :
    (i + 1 \in CallIds /\ calls[i + 1].now = calls[i].now
       /\ calls[i].err = ErrNil)
      => calls[i + 1].log = <<>>

\* C9 as amended: of two calls in succession at the same host time, the
\* first having read the device clock and had every write it attempted
\* accepted, the second attempts no write.
C9_SecondCallWritesNothingAfterCleanPass ==
  \A i \in CallIds :
    (i + 1 \in CallIds /\ calls[i + 1].now = calls[i].now
       /\ calls[i].readErr = ErrNil /\ AllWritesAccepted(calls[i]))
      => calls[i + 1].log = <<>>

\* the first call wrote and all was accepted; the second read and wrote nothing
C9_Witness ==
  /\ Len(calls) >= 2
  /\ calls[2].now = calls[1].now
  /\ calls[1].readErr = ErrNil /\ calls[1].log /= <<>>
  /\ AllWritesAccepted(calls[1])
  /\ calls[2].readErr = ErrNil /\ calls[2].log = <<>>

\* the registers of the clock fields
C10_FieldOfReg ==
  [r \in 45..50 |->
     CASE r = 50 -> "second" [] r = 49 -> "minute" [] r = 48 -> "hour"
       [] r = 47 -> "day"    [] r = 46 -> "month"  [] r = 45 -> "year"]

\* C10: every write a call attempts is the write of a clock field whose
\* device value differs from the host's, with the host's value, and the
\* writes of one call go down the registers: 50 (second), 49 (minute),
\* 48 (hour), 47 (day), 46 (month), 45 (year).
C10_WritesDifferingFieldsInOrder ==
  \A i \in CallIds :
    LET c == calls[i]
        inverterTime == GetTime(c.regs)
    IN /\ \A k \in 1..Len(c.log) :
            /\ c.log[k][1] \in 45..50
            /\ inverterTime[C10_FieldOfReg[c.log[k][1]]]
                 /= c.now[C10_FieldOfReg[c.log[k][1]]]
            /\ c.log[k][2] = c.now[C10_FieldOfReg[c.log[k][1]]]
       /\ \A k, l \in 1..Len(c.log) : k < l => c.log[k][1] > c.log[l][1]

\* a pass that wrote all six fields, and one that skipped equal fields
C10_Witness ==
  /\ Len(calls) >= 1
  /\ Len(calls[1].log) = 6

C10_WitnessSkips ==
  \E i \in CallIds :
    /\ Len(calls[i].log) = 2
    /\ calls[i].log[1][1] = 50 /\ calls[i].log[2][1] = 47

\* the k-th write attempted by call c was rejected by the device
C11_WriteFailed(c, k) == c.post[c.log[k][1]] /= c.log[k][2]

\* C11: in a reconciliation pass, a rejected write of the second, minute,
\* hour, day or month is the last write attempted and the call returns an
\* error; a rejected write of the year leaves the call returning success
\* with every earlier write of the pass applied to the device.
C11_FailedWriteAbortsExceptYear ==
  \A i \in CallIds :
    LET c == calls[i] IN
    \A k \in 1..Len(c.log) :
      C11_WriteFailed(c, k) =>
        IF c.log[k][1] = 45
        THEN /\ c.err = ErrNil
             /\ \A j \in 1..(k - 1) : c.post[c.log[j][1]] = c.log[j][2]
        ELSE /\ k = Len(c.log)
             /\ c.err /= ErrNil

\* a pass whose hour write was rejected after two accepted writes
C11_Witness ==
  \E i \in CallIds :
    /\ Len(calls[i].log) = 3
    /\ calls[i].log[3][1] = 48
    /\ C11_WriteFailed(calls[i], 3)
    /\ calls[i].err /= ErrNil

\* a pass whose year write was rejected after five accepted writes
C11_WitnessYear ==
  \E i \in CallIds :
    /\ Len(calls[i].log) = 6
    /\ C11_WriteFailed(calls[i], 6)
    /\ calls[i].err = ErrNil

(***************************************************************************)
(* The decoder: claims, on the record getStats made of the block data.     *)
(***************************************************************************)
\* the double-word fields that are divided by 10, with the index of the
\* first of their two words
C13_FirstWord ==
  [PVInputPower |-> 1, PV1InputWatt |-> 5, PV2InputWatt |-> 9, ACWatt |-> 11,
   AC1Watt |-> 16, AC2Watt |-> 20, AC3Watt |-> 24]

\* C13: every double-word power field of a decoded record is
\* ((hi << 16) | lo) / 10, truncated, hi being the word of the block at the
\* field's first index and lo the word at the next index.
C13_PowerFieldsFromOwnWords ==
  \A k \in 1..Len(decoded) :
    \A f \in DOMAIN C13_FirstWord :
      decoded[k][f]
        = U32Div(U32(data[C13_FirstWord[f]], data[C13_FirstWord[f] + 1]), 10)

\* C18: the energy totals of a decoded record are ((hi << 16) | lo) * 100
\* of the words 26-27 (today) and 28-29 (all time), the whole product and
\* not its low 32 bits, and the runtime is ((hi << 16) | lo) / 2 of the
\* words 30-31.
C18_TotalsWithoutWrapAround ==
  \A k \in 1..Len(decoded) :
    /\ <<decoded[k].TotalTodayWatt.lo, decoded[k].TotalTodayWatt.hi, 0>>
         = MulParts(U32(data[26], data[27]), 100)
    /\ <<decoded[k].TotalAllTimeWatt.lo, decoded[k].TotalAllTimeWatt.hi, 0>>
         = MulParts(U32(data[28], data[29]), 100)
    /\ decoded[k].TotalWorkTimeSecs = U32Div(U32(data[30], data[31]), 2)

=============================================================================
